---------------------------- MODULE Spec2Model ----------------------------
(***************************************************************************)
(* A model of the vote package (src/vote/voting_system.py): the Vote       *)
(* ballot container, first_past_the_post, single_transferable_vote and     *)
(* the Result they return.                                                 *)
(*                                                                         *)
(* Values.  A cell of a ballot, of the candidate list or of a data frame   *)
(* is a Python int or a Python str.  Both are written as integers here:    *)
(* an int k is k, the j-th user-chosen name ('A', 'B', ...) is Str(j) and  *)
(* the generated name 'candidate_k' is Placeholder(k); IsStr tells them    *)
(* apart.  NaN, the "no further preference" cell, is -1: the code itself   *)
(* writes NaN as -1 before every group-by (fillna(-1)) and turns every -1  *)
(* back into NaN after it.                                                 *)
(*                                                                         *)
(* votes is the bag of the ballots of the list self.votes: the code reads  *)
(* the list only through len(), the set of its choices, its longest        *)
(* ballot and the (sorted, order-insensitive) group-by of aggregate.       *)
(* A data frame of votes is the function from its ranking rows to their    *)
(* n_votes; its row order is the sorted order of the group-by keys.        *)
(*                                                                         *)
(* Library behaviour relied on (pandas, iteround) is stated where used.    *)
(***************************************************************************)
EXTENDS Integers, Sequences, FiniteSets, Bags, TLC

\* ------------------------------------------------------------------ bounds
\* Size of an election: number of candidates plus number of ballots.
MaxSize == 7
\* Largest integer seat count tried.
MaxSeats == 3
\* Offset that separates the codes of strings from the integers.
StrBase == 100

\* a third of the size, rounded up, goes to candidates, the rest to ballots
MaxCand == (MaxSize + 2) \div 3
\* number of ballots, and longest ballot, of the malformed-input family
WideVotes == MaxSize \div 3

\* ------------------------------------------------------------------ values
NaN == -1

Str(j) == StrBase + j
Placeholder(k) == StrBase + StrBase + k
IsStr(x) == x >= StrBase
IsInt(x) == x < StrBase

RECURSIVE SumF(_, _)
\* sum of f[x] over x in S
SumF(f, S) ==
    IF S = {} THEN 0
    ELSE LET x == CHOOSE y \in S : TRUE IN f[x] + SumF(f, S \ {x})

Max(S) == CHOOSE x \in S : \A y \in S : y <= x
Min(S) == CHOOSE x \in S : \A y \in S : x <= y

Range(s) == {s[k] : k \in DOMAIN s}

\* the orders in which the elements of a finite set can be listed
Perms(S) ==
    {p \in [1..Cardinality(S) -> S] : \A a, b \in 1..Cardinality(S) : a # b => p[a] # p[b]}

\* ------------------------------------------------------------------ inputs
\* ballots of at most maxlen choices drawn from an alphabet
BallotsOver(alphabet, maxlen) == UNION {[1..k -> alphabet] : k \in 0..maxlen}

\* ballots that rank each candidate at most once (what Vote.generate draws)
Rankings(alphabet, maxlen) ==
    {b \in BallotsOver(alphabet, maxlen) :
        Len(b) >= 1 /\ \A a, c \in 1..Len(b) : a # c => b[a] # b[c]}

RECURSIVE BagsOf(_, _)
\* the bags of at most n elements of S
BagsOf(S, n) ==
    IF S = {} \/ n = 0 THEN {EmptyBag}
    ELSE LET x == CHOOSE y \in S : TRUE
         IN  UNION {{IF k = 0 THEN r ELSE r (+) [e \in {x} |-> k] : r \in BagsOf(S \ {x}, n - k)} :
                      k \in 0..n}

NonEmptyBags(S, n) == BagsOf(S, n) \ {EmptyBag}

\* n_seats is held in half units, so that 1.5 seats is the integer 3
Seats(n) == 2 * n
ValidSeatValues == {Seats(n) : n \in 1..MaxSeats}
\* -2, -1, -1.5, -0.5, 0, 0.5 and 1.5 seats
InvalidSeatValues == {Seats(-2), Seats(-1), -3, -1, Seats(0), 1, 3}

Input(v, none, cands, s) ==
    [votes |-> v, candidates_none |-> none, candidates |-> cands, n_seats |-> s]

\* Well-formed elections: integer ballots over 1..n without a candidate list
\* (the form the tests use), n candidates and at most MaxSize - n ballots.
TallyInputs ==
    {Input(v, TRUE, <<>>, s) :
        v \in UNION {NonEmptyBags(Rankings(1..n, n), MaxSize - n) : n \in 1..MaxCand},
        s \in ValidSeatValues}

\* The same elections over one or two candidates with a seat count that is
\* no positive integer.
SeatInputs ==
    {Input(v, TRUE, <<>>, s) :
        v \in UNION {NonEmptyBags(Rankings(1..n, n), MaxSize - n) : n \in 1..(MaxCand - 1)},
        s \in InvalidSeatValues}

\* Candidate lists tried with the malformed-input family: lists of one to
\* MaxCand names, a duplicate name and a non-string entry.
WideCandidates ==
    {[k \in 1..n |-> Str(k)] : n \in 1..MaxCand}
        \cup {<<Str(1), Str(1)>>, <<Str(1), 1>>}

\* Short ballots over integers (out-of-range ones included), over names
\* (unknown ones included) and mixing both.
WideVotesSets ==
    NonEmptyBags(BallotsOver(NaN..MaxCand, WideVotes), WideVotes)
        \cup NonEmptyBags(BallotsOver({Str(k) : k \in 1..MaxCand}, WideVotes), WideVotes)
        \cup NonEmptyBags({<<1>>, <<Str(1)>>, <<1, Str(1)>>}, WideVotes)

WideInputs ==
    {Input(v, FALSE, c, s) :
        v \in WideVotesSets, c \in WideCandidates, s \in {Seats(1), Seats(2)}}
    \cup
    {Input(v, TRUE, <<>>, s) : v \in WideVotesSets, s \in {Seats(1), Seats(2)}}

Inputs == TallyInputs \cup SeatInputs \cup WideInputs

\* ------------------------------------------------------------------ state
VARIABLES
    pc,               \* "new", "vote", "stv", "done", "raised"
    exception,        \* the exception that ended the call, or "none"
    votes,            \* Vote.votes
    candidates_none,  \* the candidates argument of Vote(...) was None
    candidates,       \* Vote.candidates
    agg_replace,      \* Vote._agg_replace
    n_seats,          \* the n_seats argument, in half units
    method,           \* the counting function called: "none", "fptp", "stv"
    quota, votes_df, winners, i,    \* locals of single_transferable_vote
    warned,           \* warnings.warn was called
    result,           \* the Result returned: a record of its attributes
    n_deducted,       \* history: winners whose rows had the quota deducted
    exhausted,        \* history: votes of the rows dropped with no choice left
    eliminated,       \* history: the losers of the elimination steps made
    manner,           \* the manner argument of a call of Vote.aggregate
    deduct_X, deduct_n,   \* the arguments X and n of proportional_deduction_retain_int
    deducted          \* the series it returned

\* the state of a call of Vote.aggregate or of the deduction made on its own
call_vars == <<manner, deduct_X, deduct_n, deducted>>

vars == <<pc, exception, votes, candidates_none, candidates, agg_replace, n_seats,
          method, quota, votes_df, winners, i, warned, result, n_deducted, exhausted, eliminated,
          manner, deduct_X, deduct_n, deducted>>

\* ------------------------------------------------------------------ Vote
Ballots(v) == BagToSet(v)
NumVotes(v) == BagCardinality(v)
Choices(v) == UNION {Range(b) : b \in Ballots(v)}
MaxBallotLen(v) == Max({Len(b) : b \in Ballots(v)})

\* string_votes and int_votes of _validate (both hold of an empty choice set)
StringVotes(v) == \A c \in Choices(v) : IsStr(c)
IntVotes(v) == \A c \in Choices(v) : IsInt(c)

\* The assertions of _validate for a supplied candidate list.  The result of
\* choices.issubset(...) is computed and dropped: it is no condition here.
ValidateSupplied(v, cands) ==
    /\ \A k \in DOMAIN cands : IsStr(cands[k])
    /\ Len(cands) = Cardinality(Range(cands))
    /\ Len(cands) >= MaxBallotLen(v)
    /\ (~StringVotes(v)) =>
          /\ Min(Choices(v)) >= 0
          /\ Max(Choices(v)) <= Len(cands)

\* tuple(f'candidate_{i + 1}' for i in range(max(choices)))
PlaceholderNames(v) ==
    LET m == Max(Choices(v))
    IN  [k \in 1..(IF m > 0 THEN m ELSE 0) |-> Placeholder(k)]

\* nothing has been called yet
NoCall ==
    /\ manner = "none"
    /\ deduct_X = <<>>
    /\ deduct_n = 0
    /\ deducted = <<>>

Start(inputs) ==
    /\ \E inp \in inputs :
          /\ votes = inp.votes
          /\ candidates_none = inp.candidates_none
          /\ candidates = inp.candidates
          /\ n_seats = inp.n_seats
    /\ pc = "new"
    /\ NoCall
    /\ exception = "none"
    /\ agg_replace = FALSE
    /\ method = "none"
    /\ quota = 0
    /\ votes_df = <<>>
    /\ winners = <<>>
    /\ i = 0
    /\ warned = FALSE
    /\ result = [winners |-> <<>>]
    /\ n_deducted = 0
    /\ exhausted = 0
    /\ eliminated = {}

Init == Start(Inputs)

Raise(e) ==
    /\ pc' = "raised"
    /\ exception' = e

\* Vote.__init__: the votes setter, then _validate
VoteInit ==
    /\ pc = "new"
    /\ UNCHANGED call_vars
    /\ UNCHANGED <<votes, candidates_none, n_seats, method, quota, votes_df, winners, i,
                   warned, result, n_deducted, exhausted, eliminated>>
    /\ IF ~(StringVotes(votes) \/ IntVotes(votes))
       THEN Raise("AssertionError") /\ UNCHANGED <<candidates, agg_replace>>
       ELSE IF ~candidates_none
       THEN IF ValidateSupplied(votes, candidates)
            THEN /\ agg_replace' = TRUE
                 /\ pc' = "vote"
                 /\ UNCHANGED <<exception, candidates>>
            ELSE Raise("AssertionError") /\ UNCHANGED <<candidates, agg_replace>>
       ELSE /\ pc' = "vote"
            /\ UNCHANGED exception
            /\ IF StringVotes(votes)
               THEN /\ candidates' \in Perms(Choices(votes))
                    /\ agg_replace' = TRUE
               ELSE /\ candidates' = PlaceholderNames(votes)
                    /\ agg_replace' = FALSE

\* ------------------------------------------------------------------ aggregate
\* df.replace({nm: i for (i, nm) in enumerate(candidates)}): a name of the
\* candidate list becomes its index, any other cell is left as it is
NameToIndex(c, cands) ==
    IF \E k \in DOMAIN cands : cands[k] = c
    THEN (CHOOSE k \in DOMAIN cands : cands[k] = c) - 1
    ELSE c

\* pd.DataFrame(self.votes, columns=columns), one column per candidate: the
\* constructor raises ValueError unless the longest ballot has as many cells
\* as there are columns; shorter ballots are padded with NaN
DataFrameShapeOk(v, cands) ==
    /\ Len(cands) >= 1
    /\ MaxBallotLen(v) = Len(cands)

\* the row of a ballot: names replaced when _agg_replace, padded with NaN
BallotRow(b, cands, replace, width) ==
    [k \in 1..width |->
        IF k <= Len(b)
        THEN (IF replace THEN NameToIndex(b[k], cands) ELSE b[k])
        ELSE NaN]

\* fillna(-1).groupby(columns).sum(): equal rows are merged, counts summed
GroupRows(v, cands, replace, width) ==
    LET keys == {BallotRow(b, cands, replace, width) : b \in Ballots(v)}
    IN  [key \in keys |->
            SumF(v, {b \in Ballots(v) : BallotRow(b, cands, replace, width) = key})]

\* Vote.aggregate(manner) once the frame is built
Aggregate(v, cands, replace, how) ==
    GroupRows(v, cands, replace, IF how = "first" THEN 1 ELSE Len(cands))

TotalVotes(df) == SumF(df, DOMAIN df)

\* a call vote.aggregate(manner) on a constructed Vote
AggregateCall ==
    /\ pc = "vote"
    /\ manner' \in {"all", "first"}
    /\ UNCHANGED <<votes, candidates_none, candidates, agg_replace, n_seats, method,
                   quota, winners, i, warned, result, n_deducted, exhausted, eliminated,
                   deduct_X, deduct_n, deducted>>
    /\ IF ~DataFrameShapeOk(votes, candidates)
       THEN Raise("ValueError: DataFrame") /\ UNCHANGED votes_df
       ELSE /\ votes_df' = Aggregate(votes, candidates, agg_replace, manner')
            /\ pc' = "aggregated"
            /\ UNCHANGED exception

\* ------------------------------------------------------------------ Result
\* .replace({i: cand for (i, cand) in enumerate(candidates)}) is applied to
\* the whole winners frame: to the choice column and to the n_votes column
IndexToName(x, cands) ==
    IF x \in 0..(Len(cands) - 1) THEN cands[x + 1] ELSE x

\* Result(winners): one Winner(name=row['choice'], n_votes=row['n_votes'])
\* per row, in row order.  Result keeps the list in its winners attribute
\* and defines nothing else but iteration and indexing over it.
MakeResult(rows, cands) ==
    [winners |->
        [k \in DOMAIN rows |->
            [name |-> IndexToName(rows[k].choice, cands),
             n_votes |-> IndexToName(rows[k].n_votes, cands)]]]

RECURSIVE SortedRows(_, _)
\* the rows of a one-column frame listed by ascending key
SortedRows(df, keys) ==
    IF keys = {} THEN <<>>
    ELSE LET k == CHOOSE x \in keys : \A y \in keys : x[1] <= y[1]
         IN  <<[choice |-> k[1], n_votes |-> df[k]]>> \o SortedRows(df, keys \ {k})

\* ------------------------------------------------------------------ FPTP
\* mutant: only one of the rows with the largest count is kept (idxmax)
MaskWinnerOne(df) ==
    LET top == Max({df[k] : k \in DOMAIN df})
    IN  {CHOOSE k \in DOMAIN df : df[k] = top}

\* mask_winner = (df.n_votes == df.n_votes.max())
MaskWinner(df) ==
    LET top == Max({df[k] : k \in DOMAIN df})
    IN  {k \in DOMAIN df : df[k] = top}

\* first_past_the_post(vote)
FirstPastThePost ==
    /\ pc = "vote"
    /\ UNCHANGED call_vars
    /\ method' = "fptp"
    /\ UNCHANGED <<votes, candidates_none, candidates, agg_replace, n_seats,
                   quota, votes_df, winners, i, warned, n_deducted, exhausted, eliminated>>
    /\ IF ~DataFrameShapeOk(votes, candidates)
       THEN Raise("ValueError: DataFrame") /\ UNCHANGED result
       ELSE LET df == Aggregate(votes, candidates, agg_replace, "first")
            IN  /\ result' = MakeResult(SortedRows(df, MaskWinner(df)), candidates)
                /\ pc' = "done"
                /\ UNCHANGED exception

\* ------------------------------------------------------------------ deduction
RECURSIVE GCD(_, _)
GCD(a, b) == IF b = 0 THEN a ELSE GCD(b, a % b)

RECURSIVE IsPowerOfTwo(_)
IsPowerOfTwo(n) == n = 1 \/ (n > 1 /\ n % 2 = 0 /\ IsPowerOfTwo(n \div 2))

\* mult = 1 - n / sum(X) is an exact double when the reduced denominator of
\* n / sum(X) is a power of two; X * mult is then exact as well
MultIsExact(n, sumX) == IsPowerOfTwo(sumX \div GCD(n, sumX))

\* round(x * mult): the nearest integer.  At an exact half Python rounds to
\* the even neighbour; where mult is inexact the product of a half may fall
\* on either side of it, and both neighbours are possible.
Rounded(x, n, sumX) ==
    LET num == x * (sumX - n)
        lo == num \div sumX
        rem == num % sumX
    IN  IF 2 * rem < sumX THEN {lo}
        ELSE IF 2 * rem > sumX THEN {lo + 1}
        ELSE IF MultIsExact(n, sumX) THEN {IF lo % 2 = 0 THEN lo ELSE lo + 1}
        ELSE {lo, lo + 1}

\* iteround.saferound(X, places=0, strategy='largest'): every value is
\* rounded, then the largest rounded values are moved by one until the sum
\* is the rounded sum of the inputs, which is sum(X) - n.  Which of several
\* equal values is moved is not fixed here.
SafeRound(X, n) ==
    LET rows == DOMAIN X
        sumX == SumF(X, rows)
        target == sumX - n
        roundings == {r \in [rows -> UNION {Rounded(X[k], n, sumX) : k \in rows}] :
                         \A k \in rows : r[k] \in Rounded(X[k], n, sumX)}
        Adjusted(r) ==
            LET diff == target - SumF(r, rows)
                size == IF diff < 0 THEN -diff ELSE diff
                step == IF diff < 0 THEN -1 ELSE 1
            IN  {[k \in rows |-> IF k \in T THEN r[k] + step ELSE r[k]] :
                    T \in {U \in SUBSET rows :
                             /\ Cardinality(U) = size
                             /\ \A a \in U, b \in rows \ U : r[a] >= r[b]}}
    IN  UNION {Adjusted(r) : r \in roundings}

\* the argument checks of proportional_deduction_retain_int
DeductionRejects(X, n) ==
    \/ n < 0
    \/ \E k \in DOMAIN X : X[k] < 0
    \/ SumF(X, DOMAIN X) < n

\* the "Safety check" of proportional_deduction_retain_int
RoundingCheckFails(X, Y, n) == SumF(X, DOMAIN X) # SumF(Y, DOMAIN Y) + n

\* proportional_deduction_retain_int(X, n) for accepted arguments: the
\* sequences it can return
ProportionalDeduction(X, n) == SafeRound(X, n)

\* ------------------------------------------------------------------ STV
FloorDiv(a, b) == IF b > 0 THEN a \div b ELSE (-a) \div (-b)

\* math.floor(len(votes) / (n_seats + 1)) + 1, n_seats in half units
Quota(nvotes, seats) == FloorDiv(2 * nvotes, seats + 2) + 1

\* not isinstance(n_seats, int) and n_seats <= 0
SeatCheckRaises(seats) == seats % 2 # 0 /\ seats <= 0

\* mutant: the comparison also rejects an exactly sufficient number of votes
TooFewVotesOrEqual(nvotes, q, seats) == 2 * nvotes <= q * seats

\* len(votes) < (quota * n_seats)
TooFewVotes(nvotes, q, seats) == 2 * nvotes < q * seats

FirstChoices(df) == {k[1] : k \in DOMAIN df} \ {NaN}
RowsOf(df, c) == {k \in DOMAIN df : k[1] = c}
ChoiceTotal(df, c) == SumF(df, RowsOf(df, c))

\* choices.astype({'choice': int, ...}) raises ValueError on a name
AstypeRaises(df) == \E c \in FirstChoices(df) : IsStr(c)

\* mutant: a choice is kept only if it has more votes than the quota
QuotaExceeded(df, q) == {c \in FirstChoices(df) : ChoiceTotal(df, c) > q}

\* the choices calculate_winners keeps: choices.n_votes >= quota
QuotaReached(df, q) == {c \in FirstChoices(df) : ChoiceTotal(df, c) >= q}

\* calculate_winners(df, quota): the kept choices by descending n_votes; the
\* order of equal totals is left to the sort
CalculateWinners(df, q) ==
    {[k \in DOMAIN p |-> [choice |-> p[k], n_votes |-> ChoiceTotal(df, p[k])]] :
        p \in {o \in Perms(QuotaReached(df, q)) :
                 \A a, b \in DOMAIN o :
                    a < b => ChoiceTotal(df, o[a]) >= ChoiceTotal(df, o[b])}}

Restrict(df, keys) == [k \in keys |-> df[k]]

\* mutant: the rows whose votes are all spent stay in the frame
KeepSpent(df) == df

\* df[df.n_votes != 0]
DropSpent(df) == Restrict(df, {k \in DOMAIN df : df[k] # 0})

RECURSIVE SubtractLoop(_, _, _)
\* the for loop of subtract_votes_from_winners: the frames it can end with,
\* or {} if a deduction raised
SubtractLoop(df, ids, q) ==
    IF ids = {} THEN {df}
    ELSE LET c == CHOOSE x \in ids : TRUE
             values == Restrict(df, RowsOf(df, c))
         IN  IF DeductionRejects(values, q) THEN {}
             ELSE UNION {
                    IF RoundingCheckFails(values, deducted_values, q) THEN {}
                    ELSE SubtractLoop(
                           [k \in DOMAIN df |->
                               IF k \in DOMAIN deducted_values THEN deducted_values[k] ELSE df[k]],
                           ids \ {c}, q) :
                    deducted_values \in ProportionalDeduction(values, q)}

\* subtract_votes_from_winners(df, new_winners, quota)
SubtractVotesFromWinners(df, ids, q) == {DropSpent(d) : d \in SubtractLoop(df, ids, q)}

\* losers of transfer_from_losers: the first choices whose total is the
\* smallest total of the frame
Losers(df) ==
    LET fc == FirstChoices(df)
    IN  IF fc = {} THEN {}
        ELSE LET min_val == Min({ChoiceTotal(df, c) : c \in fc})
             IN  {c \in fc : ChoiceTotal(df, c) = min_val}

\* mutant: the first choice is blanked and the other choices stay where they are
BlankFirst(k) == [j \in DOMAIN k |-> IF j = 1 THEN NaN ELSE k[j]]

\* mutant: the column that held the first choice is not overwritten with NaN
RotateRow(k) == [j \in DOMAIN k |-> IF j < Len(k) THEN k[j + 1] ELSE k[1]]

\* the renamed columns: every choice moves one column left, the last is NaN
ShiftRow(k) == [j \in DOMAIN k |-> IF j < Len(k) THEN k[j + 1] ELSE NaN]

AllNaN(k) == \A j \in DOMAIN k : k[j] = NaN

\* the rows transfer_from_losers drops: no choice is left in them
ExhaustedRows(df) ==
    {k \in DOMAIN df :
        \/ AllNaN(k)
        \/ k[1] \in Losers(df) /\ \A j \in 2..Len(k) : k[j] = NaN}

\* mutant: rows that become equal are not summed, one of them is kept
TransferKeepsOneRow(df) ==
    LET losers == Losers(df)
        Moved(k) == IF k[1] \in losers THEN ShiftRow(k) ELSE k
        kept == {k \in DOMAIN df : ~AllNaN(Moved(k))}
    IN  [key \in {Moved(k) : k \in kept} |->
            df[CHOOSE k \in kept : Moved(k) = key]]

\* mutant: the losers' rows are not dropped from the frame before their
\* renamed copies are concatenated to it
TransferKeepsLosers(df) ==
    LET losers == Losers(df)
        moved == {k \in DOMAIN df : k[1] \in losers /\ ~AllNaN(ShiftRow(k))}
        stay == {k \in DOMAIN df : ~AllNaN(k)}
    IN  [key \in stay \cup {ShiftRow(k) : k \in moved} |->
            (IF key \in stay THEN df[key] ELSE 0)
                + SumF(df, {k \in moved : ShiftRow(k) = key})]

\* mutant: the elimination leaves the frame as it is
TransferNothing(df) == df

\* transfer_from_losers(df, shift_cols)
TransferFromLosers(df) ==
    LET losers == Losers(df)
        Moved(k) == IF k[1] \in losers THEN ShiftRow(k) ELSE k
        kept == {k \in DOMAIN df : ~AllNaN(Moved(k))}
    IN  [key \in {Moved(k) : k \in kept} |->
            SumF(df, {k \in kept : Moved(k) = key})]

\* mutant: the loop goes on after the warning (no break)
LoopCondNoBreak == 2 * Len(winners) < n_seats

\* while len(winners) < n_seats, and no break yet
LoopCond == 2 * Len(winners) < n_seats /\ ~warned

\* single_transferable_vote(vote, n_seats) up to the loop
STVEnter ==
    /\ pc = "vote"
    /\ UNCHANGED call_vars
    /\ method' = "stv"
    /\ UNCHANGED <<votes, candidates_none, candidates, agg_replace, n_seats,
                   winners, i, warned, result, n_deducted, exhausted, eliminated>>
    /\ IF SeatCheckRaises(n_seats)
       THEN Raise("ValueError: seats") /\ UNCHANGED <<quota, votes_df>>
       ELSE IF n_seats + 2 = 0
       THEN Raise("ZeroDivisionError") /\ UNCHANGED <<quota, votes_df>>
       ELSE /\ quota' = Quota(NumVotes(votes), n_seats)
            /\ IF TooFewVotes(NumVotes(votes), quota', n_seats)
               THEN Raise("ValueError: too few votes") /\ UNCHANGED votes_df
               ELSE IF ~DataFrameShapeOk(votes, candidates)
               THEN Raise("ValueError: DataFrame") /\ UNCHANGED votes_df
               ELSE /\ votes_df' = Aggregate(votes, candidates, agg_replace, "all")
                    /\ pc' = "stv"
                    /\ UNCHANGED exception

\* one pass of the while loop
STVRound ==
    /\ pc = "stv"
    /\ UNCHANGED call_vars
    /\ LoopCond
    /\ UNCHANGED <<votes, candidates_none, candidates, agg_replace, n_seats,
                   method, quota, result>>
    /\ IF AstypeRaises(votes_df)
       THEN Raise("ValueError: astype")
            /\ UNCHANGED <<votes_df, winners, i, warned, n_deducted, exhausted, eliminated>>
       ELSE \E new_winners \in CalculateWinners(votes_df, quota) :
            LET ids == {new_winners[k].choice : k \in DOMAIN new_winners}
                frames == IF i = 0
                          THEN (IF ids # {}
                                THEN SubtractVotesFromWinners(votes_df, ids, quota)
                                ELSE {votes_df})
                          ELSE {TransferFromLosers(votes_df)}
            IN  IF frames = {}
                THEN Raise("RoundingError")
                     /\ UNCHANGED <<votes_df, winners, i, warned, n_deducted, exhausted, eliminated>>
                ELSE \E df \in frames :
                        /\ winners' = winners \o new_winners
                        /\ votes_df' = df
                        /\ i' = (i + 1) % 2
                        /\ warned' = (DOMAIN df = {} /\ 2 * Len(winners') < n_seats)
                        /\ n_deducted' = IF i = 0 THEN n_deducted + Cardinality(ids)
                                         ELSE n_deducted
                        /\ exhausted' = IF i = 0 THEN exhausted
                                        ELSE exhausted + SumF(votes_df, ExhaustedRows(votes_df))
                        /\ eliminated' = IF i = 0 THEN eliminated
                                         ELSE eliminated \cup Losers(votes_df)
                        /\ UNCHANGED <<pc, exception>>

\* the end of single_transferable_vote: Result(winners)
STVReturn ==
    /\ pc = "stv"
    /\ UNCHANGED call_vars
    /\ ~LoopCond
    /\ result' = MakeResult(winners, candidates)
    /\ pc' = "done"
    /\ UNCHANGED <<exception, votes, candidates_none, candidates, agg_replace, n_seats,
                   method, quota, votes_df, winners, i, warned, n_deducted, exhausted, eliminated>>

Next ==
    \/ VoteInit
    \/ AggregateCall
    \/ FirstPastThePost
    \/ STVEnter
    \/ STVRound
    \/ STVReturn

Spec == Init /\ [][Next]_vars

\* The elections of at most MaxCand well-formed integer ballots over
\* MaxCand candidates, without a candidate list, for a valid seat count.
FairInputs ==
    {Input(v, TRUE, <<>>, s) :
        v \in NonEmptyBags(Rankings(1..MaxCand, MaxCand), MaxCand), s \in ValidSeatValues}

FairInit == Start(FairInputs)

\* A call runs on one thread without suspension: once the loop of
\* single_transferable_vote is entered its next round, and after the last
\* round its return statement, is executed.
FairSpec == FairInit /\ [][Next]_vars /\ WF_vars(STVRound) /\ WF_vars(STVReturn)

\* ------------------------------------------------- the deduction on its own
\* Longest series and largest count handed to the deduction.
MaxRows == 3
MaxCount == 4

\* series of integers, a negative one included
DeductSeries == UNION {[1..k -> NaN..MaxCount] : k \in 0..MaxRows}

\* sum(X)
Sum(X) == SumF(X, DOMAIN X)

\* no Vote is involved in a call of the deduction alone
NoVote ==
    /\ votes = EmptyBag
    /\ candidates_none = TRUE
    /\ candidates = <<>>
    /\ agg_replace = FALSE
    /\ n_seats = 0
    /\ method = "none"
    /\ quota = 0
    /\ votes_df = <<>>
    /\ winners = <<>>
    /\ i = 0
    /\ warned = FALSE
    /\ result = [winners |-> <<>>]
    /\ n_deducted = 0
    /\ exhausted = 0
    /\ eliminated = {}

DeductInit ==
    /\ NoVote
    /\ pc = "deduct"
    /\ exception = "none"
    /\ manner = "none"
    /\ deduct_X \in DeductSeries
    /\ deduct_n \in -1..(Sum(deduct_X) + 1)
    /\ deducted = <<>>

\* proportional_deduction_retain_int(X, n)
Deduct ==
    /\ pc = "deduct"
    /\ UNCHANGED <<votes, candidates_none, candidates, agg_replace, n_seats, method,
                   quota, votes_df, winners, i, warned, result, n_deducted, exhausted, eliminated,
                   manner, deduct_X, deduct_n>>
    /\ IF deduct_n < 0
       THEN Raise("ValueError: deduction") /\ UNCHANGED deducted
       \* min(X) of an empty series
       ELSE IF deduct_X = <<>>
       THEN Raise("ValueError: min") /\ UNCHANGED deducted
       ELSE IF DeductionRejects(deduct_X, deduct_n)
       THEN Raise("ValueError: deduction") /\ UNCHANGED deducted
       \* n / sum(X) with sum(X) = 0: mult is NaN (numpy) and so is X * mult.
       \* saferound cannot turn NaN into integers: it raises, or the safety
       \* check finds sum_X != NaN + n
       ELSE IF Sum(deduct_X) = 0
       THEN /\ pc' = "raised"
            /\ exception' \in {"ValueError: saferound", "RoundingError"}
            /\ UNCHANGED deducted
       ELSE \E Y \in ProportionalDeduction(deduct_X, deduct_n) :
               IF RoundingCheckFails(deduct_X, Y, deduct_n)
               THEN Raise("RoundingError") /\ UNCHANGED deducted
               ELSE /\ deducted' = Y
                    /\ pc' = "deducted"
                    /\ UNCHANGED exception

DeductNext == Deduct

DeductSpec == DeductInit /\ [][DeductNext]_vars

\* ------------------------------------------------------------------ claims
\* n_seats is an integer >= 1
IsSeatCount == n_seats % 2 = 0 /\ n_seats >= 2

StvReturned == pc = "done" /\ method = "stv"
FptpReturned == pc = "done" /\ method = "fptp"

\* the first choices written on the ballots and their counts, taken from the
\* ballots themselves
BallotFirstChoices == {b[1] : b \in {x \in Ballots(votes) : Len(x) >= 1}}
FirstChoiceCount(c) == SumF(votes, {b \in Ballots(votes) : Len(b) >= 1 /\ b[1] = c})
Leaders ==
    {c \in BallotFirstChoices :
        \A d \in BallotFirstChoices : FirstChoiceCount(d) <= FirstChoiceCount(c)}

\* every ballot names a first choice
EveryBallotHasFirstChoice == \A b \in Ballots(votes) : Len(b) >= 1 /\ b[1] # NaN

\* a choice the candidate universe holds: a listed name, an index into the
\* supplied list, or a positive integer when no list was supplied
ValidChoice(c) ==
    IF IsStr(c) THEN c \in Range(candidates)
    ELSE IF candidates_none THEN c >= 1
    ELSE c \in 0..(Len(candidates) - 1)

\* the ballots are rankings over the candidate universe: at least one
\* choice, no choice twice, every choice valid
WellFormedBallots ==
    \A b \in Ballots(votes) :
        /\ Len(b) >= 1
        /\ \A a, c \in DOMAIN b : a # c => b[a] # b[c]
        /\ \A a \in DOMAIN b : ValidChoice(b[a])

\* the name under which a choice written on a ballot is reported
ReportedName(c) ==
    IndexToName(IF agg_replace THEN NameToIndex(c, candidates) ELSE c, candidates)

WinnerNames == {result.winners[k].name : k \in DOMAIN result.winners}

\* C1 as stated: after every round the votes of the count table plus the
\* quota for each winner declared so far are the ballots cast (taken where
\* every winner declared so far has had its quota deducted).
C1_ConservationAsStated ==
    pc = "stv" /\ IsSeatCount /\ WellFormedBallots /\ Len(winners) = n_deducted =>
        TotalVotes(votes_df) + quota * Len(winners) = NumVotes(votes)

\* C1 amended: after every round the votes of the count table, plus the
\* quota for each winner whose rows have had the quota deducted, plus the
\* votes of the rows dropped by eliminations with no choice left, are the
\* ballots cast.
C1_Conservation ==
    method = "stv" /\ pc \in {"stv", "done"} =>
        TotalVotes(votes_df) + quota * n_deducted + exhausted = NumVotes(votes)

\* C1 witness: a round has ended after a surplus deduction and after an
\* elimination that dropped exhausted rows, with rows left in the table.
C1_Witness ==
    /\ pc = "stv"
    /\ IsSeatCount
    /\ n_deducted >= 1
    /\ exhausted >= 1
    /\ DOMAIN votes_df # {}

\* C2: no candidate appears more than once among the winners of a
\* single_transferable_vote Result, for every n_seats >= 1.
C2_NoRepeatedWinner ==
    StvReturned /\ IsSeatCount /\ WellFormedBallots =>
        \A a, b \in DOMAIN result.winners :
            a # b => result.winners[a].name # result.winners[b].name

\* C3: the Result of single_transferable_vote holds at most n_seats winners,
\* exactly n_seats when the seats were filled, and fewer only when the
\* warning was emitted.
C3_AtMostSeatsWinners ==
    StvReturned /\ IsSeatCount /\ WellFormedBallots =>
        /\ 2 * Len(result.winners) <= n_seats
        /\ ~warned => 2 * Len(result.winners) = n_seats
        /\ 2 * Len(result.winners) < n_seats => warned

\* C4: first_past_the_post returns exactly the candidates whose first-choice
\* count is the largest one, one Winner each; the later choices of a ballot
\* play no part (ballots that all name a first choice).
C4_FptpReturnsLeaders ==
    FptpReturned /\ EveryBallotHasFirstChoice =>
        /\ WinnerNames = {ReportedName(c) : c \in Leaders}
        /\ Len(result.winners) = Cardinality(Leaders)

\* C4 witness: first_past_the_post returned several co-leaders on ballots
\* that carry later choices.
C4_Witness ==
    /\ FptpReturned
    /\ EveryBallotHasFirstChoice
    /\ Cardinality(Leaders) >= 2
    /\ \E b \in Ballots(votes) : Len(b) >= 2

\* C5: every Result exposes a tie flag and a length, and for
\* first_past_the_post the flag is true exactly when there are several
\* winners.
C5_TieFlagAndLength ==
    pc = "done" =>
        /\ {"is_tie", "__len__"} \subseteq DOMAIN result
        /\ method = "fptp" => (result.is_tie <=> Len(result.winners) > 1)

\* C6: the n_votes of every Winner is a positive integer, the first-choice
\* total the candidate held when declared (for FPTP the largest first-choice
\* count), on well-formed ballots.
C6_WinnerVotes ==
    pc = "done" /\ WellFormedBallots /\ (method = "stv" => IsSeatCount) =>
        \A k \in DOMAIN result.winners :
            LET w == result.winners[k]
            IN  /\ IsInt(w.n_votes)
                /\ w.n_votes > 0
                /\ method = "stv" => w.n_votes = winners[k].n_votes
                /\ method = "fptp" => \A c \in Leaders : w.n_votes = FirstChoiceCount(c)

\* C7: a Winner's name is always a string, and with integer ballots and no
\* candidate list a winner with id k is reported as 'candidate_k'.
C7_PlaceholderNames ==
    pc = "done" /\ WellFormedBallots /\ (method = "stv" => IsSeatCount) =>
        /\ \A k \in DOMAIN result.winners : IsStr(result.winners[k].name)
        /\ candidates_none /\ IntVotes(votes) =>
          /\ method = "stv" =>
                \A k \in DOMAIN result.winners :
                    result.winners[k].name = Placeholder(winners[k].choice)
          /\ method = "fptp" => WinnerNames = {Placeholder(c) : c \in Leaders}

\* C8: single_transferable_vote with an n_seats that is no positive integer
\* fails with the seat-count error before the quota is computed, and returns
\* no Result.
C8_SeatCountRejected ==
    method = "stv" /\ ~IsSeatCount =>
        /\ pc = "raised"
        /\ exception = "ValueError: seats"
        /\ quota = 0

\* C9: single_transferable_vote fails with the too-few-votes error exactly
\* when the call reaches the check with fewer ballots than quota x n_seats;
\* it then has run no round and declared no winner; past the check the
\* ballots are at least quota x n_seats.
C9_TooFewVotes ==
    method = "stv" =>
        /\ exception = "ValueError: too few votes" <=>
              /\ exception \notin {"ValueError: seats", "ZeroDivisionError"}
              /\ 2 * NumVotes(votes) < quota * n_seats
        /\ exception = "ValueError: too few votes" =>
              /\ pc = "raised"
              /\ winners = <<>> /\ result.winners = <<>>
              /\ votes_df = <<>> /\ i = 0 /\ n_deducted = 0 /\ exhausted = 0
        /\ pc \in {"stv", "done"} => 2 * NumVotes(votes) >= quota * n_seats

\* C9 witness: a call with a valid seat count was stopped by the
\* too-few-votes error.
C9_Witness ==
    /\ method = "stv"
    /\ IsSeatCount
    /\ exception = "ValueError: too few votes"

\* C10: a Vote built from string ballots and a candidate list fails with a
\* validation error when a ballot holds a name that is not in the list.
C10_UnknownNameRejected ==
    /\ pc # "new"
    /\ ~candidates_none
    /\ StringVotes(votes)
    /\ ~(Choices(votes) \subseteq Range(candidates))
    => (pc = "raised" /\ exception = "AssertionError")

\* C11: in every constructed Vote whose ballots are integers, each choice c
\* satisfies 0 <= c < len(candidates); a Vote with a negative choice or a
\* choice >= the number of candidates is not constructed.
C11_IntChoicesInRange ==
    pc = "vote" /\ IntVotes(votes) =>
        \A c \in Choices(votes) : 0 <= c /\ c < Len(candidates)

\* the arguments the deduction has to accept: non-negative counts and
\* 0 <= n <= sum(X)
DeductArgsValid ==
    /\ \A k \in DOMAIN deduct_X : deduct_X[k] >= 0
    /\ 0 <= deduct_n /\ deduct_n <= Sum(deduct_X)

\* what the deduction has to return: as many values as X, 0 <= Y[i] <= X[i],
\* sum(Y) = sum(X) - n
DeductContract ==
    /\ pc = "deducted"
    /\ DOMAIN deducted = DOMAIN deduct_X
    /\ \A k \in DOMAIN deducted : 0 <= deducted[k] /\ deducted[k] <= deduct_X[k]
    /\ Sum(deducted) = Sum(deduct_X) - deduct_n

\* the call was rejected with a ValueError
DeductRejected ==
    pc = "raised" /\ exception \in {"ValueError: deduction", "ValueError: min"}

\* C12: for non-negative counts X and 0 <= n <= sum(X) the deduction returns
\* Y of the same length with 0 <= Y[i] <= X[i] and sum(Y) = sum(X) - n and
\* raises no error; n < 0, a negative X[i] or n > sum(X) is rejected.
C12_DeductionContract ==
    pc # "deduct" =>
        IF DeductArgsValid THEN DeductContract
        ELSE DeductRejected

\* C13: Vote.aggregate, called on a constructed Vote of well-formed ballots
\* with manner 'all' or 'first', returns a table whose n_votes sum is the
\* number of ballots.
C13_AggregateTotal ==
    manner # "none" /\ WellFormedBallots =>
        /\ pc = "aggregated"
        /\ TotalVotes(votes_df) = NumVotes(votes)

\* the count table is empty with fewer than n_seats winners declared
Unresolvable(df, w) == DOMAIN df = {} /\ 2 * Len(w) < n_seats

\* C14: after every round the warning has been emitted exactly if the count
\* table is empty with fewer than n_seats winners declared; the call then
\* runs no further round and returns the winners found so far without
\* raising.
C14_WarningOnEmptyTable ==
    [][/\ method' = "stv" /\ pc' \in {"stv", "done"} =>
            (warned' <=> Unresolvable(votes_df', winners'))
       /\ warned /\ pc = "stv" =>
            /\ pc' = "done"
            /\ exception' = "none"
            /\ winners' = winners
            /\ Len(result'.winners) = Len(winners)]_vars

\* C14 witness: a call with a valid seat count on well-formed ballots has
\* returned a partial Result after the warning.
C14_Witness ==
    /\ StvReturned
    /\ IsSeatCount
    /\ WellFormedBallots
    /\ warned
    /\ votes_df = <<>>
    /\ Len(result.winners) >= 1
    /\ 2 * Len(result.winners) < n_seats

\* the votes of the rows of the count table whose first choice is c
FirstChoiceTotal(c) == SumF(votes_df, {k \in DOMAIN votes_df : k[1] = c})

\* the candidates that are the first choice of some row of the count table
TableCandidates == {k[1] : k \in DOMAIN votes_df} \ {NaN}

\* the winners a step appends to the winners list
Appended == SubSeq(winners', Len(winners) + 1, Len(winners'))

\* C15: a round appends to the winners list, after the winners of earlier
\* rounds, exactly the candidates whose first-choice total in the count
\* table is >= quota, each once with that total, by descending total; the
\* quota is floor(ballots / (n_seats + 1)) + 1 (26 for 100 ballots and 3
\* seats) and no round changes it.
C15_RoundWinners ==
    [][pc = "stv" /\ pc' = "stv" /\ IsSeatCount =>
          /\ quota = (NumVotes(votes) \div ((n_seats \div 2) + 1)) + 1
          /\ quota' = quota
          /\ Quota(100, Seats(3)) = 26
          /\ Len(winners') >= Len(winners)
          /\ SubSeq(winners', 1, Len(winners)) = winners
          /\ {Appended[k].choice : k \in DOMAIN Appended}
                = {c \in TableCandidates : FirstChoiceTotal(c) >= quota}
          /\ \A k \in DOMAIN Appended :
                Appended[k].n_votes = FirstChoiceTotal(Appended[k].choice)
          /\ \A a, b \in DOMAIN Appended :
                /\ a # b => Appended[a].choice # Appended[b].choice
                /\ a < b => Appended[a].n_votes >= Appended[b].n_votes]_vars

\* C15 witness: one round has declared two candidates with different
\* totals, the larger first, one of them with exactly the quota.
C15_Witness ==
    /\ pc = "stv"
    /\ IsSeatCount
    /\ WellFormedBallots
    /\ i = 1
    /\ n_deducted = 2
    /\ Len(winners) = 2
    /\ winners[1].n_votes > winners[2].n_votes
    /\ winners[2].n_votes = quota

\* C16: the phase is 0 (surplus transfer) when the loop is entered and
\* toggles in every round, and every round changes the count table: a
\* surplus-transfer round with no winner performs the elimination itself.
C16_EveryRoundChangesTable ==
    [][/\ pc = "vote" /\ pc' = "stv" => i' = 0
       /\ pc = "stv" /\ pc' = "stv" /\ IsSeatCount /\ WellFormedBallots =>
            /\ i' = 1 - i
            /\ votes_df' # votes_df]_vars

\* the candidates declared winners so far
Declared == {winners[k].choice : k \in DOMAIN winners}

\* C17: when a round is about to run the elimination step, the candidates
\* it eliminates are exactly those with the smallest first-choice total
\* among the candidates not declared winners, and none of them has been
\* declared a winner (taken where the table holds such a candidate).
C17_EliminatesNonWinnersAtMinimum ==
    /\ pc = "stv" /\ LoopCond /\ i = 1 /\ IsSeatCount /\ WellFormedBallots
    /\ TableCandidates \ Declared # {}
    =>  LET open == TableCandidates \ Declared
        IN  /\ Losers(votes_df) \cap Declared = {}
            /\ Losers(votes_df) =
                  {c \in open : \A d \in open : FirstChoiceTotal(c) <= FirstChoiceTotal(d)}

\* the candidates an elimination step of the code selects: the smallest
\* first-choice total of the count table
Eliminated ==
    {c \in TableCandidates : \A d \in TableCandidates : FirstChoiceTotal(c) <= FirstChoiceTotal(d)}

\* a ranking shifted left by one position, the sentinel in the last slot
ShiftedLeft(k) == [j \in DOMAIN k |-> IF j = Len(k) THEN NaN ELSE k[j + 1]]

\* the rows of an eliminated candidate, and those of them with no
\* preference left after the shift
EliminatedRows == {k \in DOMAIN votes_df : k[1] \in Eliminated}
DroppedRows == {k \in EliminatedRows : \A j \in DOMAIN k : ShiftedLeft(k)[j] = NaN}

\* the votes a ranking holds after an elimination step according to C18: its
\* own if its first choice is not eliminated, plus those of the eliminated
\* rows that the shift turns into it
VotesAfterElimination(r) ==
    (IF r \in DOMAIN votes_df \ EliminatedRows THEN votes_df[r] ELSE 0)
        + SumF(votes_df, {k \in EliminatedRows \ DroppedRows : ShiftedLeft(k) = r})

\* C18: an elimination step leaves the rows of the other candidates as they
\* are, shifts the rows of the eliminated candidates left by one with their
\* votes, merges equal rankings by summing and drops the rows with no
\* preference left; the table total falls by the votes of the dropped rows.
C18_EliminationFrame ==
    [][pc = "stv" /\ pc' = "stv" /\ i = 1 /\ WellFormedBallots =>
          /\ DOMAIN votes_df' =
                (DOMAIN votes_df \ EliminatedRows)
                    \cup {ShiftedLeft(k) : k \in EliminatedRows \ DroppedRows}
          /\ \A r \in DOMAIN votes_df' : votes_df'[r] = VotesAfterElimination(r)
          /\ TotalVotes(votes_df') = TotalVotes(votes_df) - SumF(votes_df, DroppedRows)]_vars

\* C18 witness: an elimination step has dropped exhausted rows and has left
\* a row with a shifted ranking that holds the votes of several ballots,
\* no winner having been declared.
C18_Witness ==
    /\ pc = "stv"
    /\ IsSeatCount
    /\ WellFormedBallots
    /\ i = 0
    /\ winners = <<>>
    /\ exhausted >= 1
    /\ TotalVotes(votes_df) = NumVotes(votes) - exhausted
    /\ \E k \in DOMAIN votes_df :
          /\ Len(k) >= 2 /\ k[Len(k)] = NaN /\ k[1] # NaN
          /\ k \in Ballots(votes) => votes_df[k] > votes[k]
          /\ votes_df[k] >= 2

\* the candidates a step declares winners
NewWinners == {Appended[k].choice : k \in DOMAIN Appended}

\* C19: a surplus-transfer step with new winners ends without an error; it
\* takes exactly quota votes from the rows of each new winner, changes no
\* ranking, keeps the rows of every other candidate with their counts and
\* removes the rows whose count has reached zero.
C19_SurplusFrame ==
    [][/\ pc = "stv" /\ 2 * Len(winners) < n_seats /\ ~warned /\ i = 0
       /\ IsSeatCount /\ WellFormedBallots
       /\ \E c \in TableCandidates : FirstChoiceTotal(c) >= quota
       => /\ pc' = "stv"
          /\ NewWinners # {}
          /\ DOMAIN votes_df' \subseteq DOMAIN votes_df
          /\ \A k \in DOMAIN votes_df :
                IF k[1] \in NewWinners
                THEN IF k \in DOMAIN votes_df'
                     THEN 0 < votes_df'[k] /\ votes_df'[k] <= votes_df[k]
                     ELSE TRUE
                ELSE k \in DOMAIN votes_df' /\ votes_df'[k] = votes_df[k]
          /\ \A c \in NewWinners :
                SumF(votes_df', {k \in DOMAIN votes_df' : k[1] = c})
                    = FirstChoiceTotal(c) - quota]_vars

\* C19 witness: the first round has declared a winner with a surplus; a row
\* of the winner is left with fewer votes, another of its rows has been
\* removed and a row of another candidate is still there.
C19_Witness ==
    /\ pc = "stv"
    /\ IsSeatCount
    /\ WellFormedBallots
    /\ i = 1
    /\ exhausted = 0
    /\ Len(winners) = 1
    /\ n_deducted = 1
    /\ winners[1].n_votes > quota
    /\ \E k \in DOMAIN votes_df : k[1] = winners[1].choice
    /\ \E k \in DOMAIN votes_df : k[1] # winners[1].choice
    /\ Cardinality(DOMAIN votes_df) < Cardinality(Ballots(votes))

\* C20: once the loop of single_transferable_vote is entered with an integer
\* n_seats >= 1 on well-formed ballots, it stops after finitely many rounds
\* with n_seats winners declared or with an empty count table, and the call
\* returns.
C20_LoopStops ==
    (pc = "stv" /\ IsSeatCount /\ WellFormedBallots)
        ~> (pc = "done" /\ (2 * Len(winners) >= n_seats \/ votes_df = <<>>))

\* C20 witness: a call has returned with exactly its seats filled, by
\* different candidates, after rounds of both kinds: an elimination that
\* dropped rows and a deduction.
C20_Witness ==
    /\ StvReturned
    /\ IsSeatCount
    /\ WellFormedBallots
    /\ n_deducted >= 1
    /\ exhausted >= 1
    /\ 2 * Len(winners) = n_seats
    /\ Cardinality(Declared) = Len(winners)

\* a ranking whose preferences come first: no preference follows a sentinel
PrefixRow(k) == \A j \in 1..(Len(k) - 1) : k[j] = NaN => k[j + 1] = NaN

\* every row holds at least one vote and its preferences form a prefix; the
\* rows are keyed by their ranking (groupby, lines 139 and 336), so no two
\* rows of a frame have the same ranking
WellFormedTable(df) == \A k \in DOMAIN df : df[k] >= 1 /\ PrefixRow(k)

\* C21: whenever a round of single_transferable_vote is about to start, on
\* ballots that rank valid candidates, every row of the count table has a
\* positive number of votes and a ranking in which no preference follows a
\* sentinel slot.
C21_TableWellFormed ==
    pc = "stv" /\ LoopCond /\ WellFormedBallots => WellFormedTable(votes_df)

\* C21 witness: a round is about to start after a deduction and after an
\* elimination that dropped exhausted rows; the table holds a row that no
\* ballot has as its ranking, with a preference left and a sentinel slot.
C21_Witness ==
    /\ pc = "stv"
    /\ LoopCond
    /\ IsSeatCount
    /\ WellFormedBallots
    /\ n_deducted >= 1
    /\ exhausted >= 1
    /\ \E k \in DOMAIN votes_df :
          /\ \A b \in Ballots(votes) :
                BallotRow(b, candidates, agg_replace, Len(candidates)) # k
          /\ k[1] # NaN
          /\ k[Len(k)] = NaN

\* C21 without the condition on the ballots
C21_TableWellFormedAnyBallots ==
    pc = "stv" /\ LoopCond => WellFormedTable(votes_df)

\* C22: a candidate eliminated in an earlier round gains no first-choice
\* votes in any later round and is not declared a winner in it.
C22_EliminatedStayOut ==
    [][pc = "stv" /\ pc' = "stv" /\ IsSeatCount /\ WellFormedBallots =>
          \A c \in eliminated :
             /\ ChoiceTotal(votes_df', c) <= ChoiceTotal(votes_df, c)
             /\ c \notin NewWinners]_vars

\* C23: no round of single_transferable_vote creates votes: the sum of
\* n_votes over the count table after a round is at most the sum before it,
\* and before and after every round no candidate's first-choice total
\* exceeds the number of ballots cast.
C23_NoVotesCreated ==
    [][pc = "stv" /\ pc' = "stv" =>
          /\ TotalVotes(votes_df') <= TotalVotes(votes_df)
          /\ \A c \in FirstChoices(votes_df) : ChoiceTotal(votes_df, c) <= NumVotes(votes)
          /\ \A c \in FirstChoices(votes_df') : ChoiceTotal(votes_df', c) <= NumVotes(votes)]_vars

\* the ballots that name c first
FirstPreferences(c) == SumF(votes, {b \in Ballots(votes) : Len(b) >= 1 /\ b[1] = c})

\* C23 witness: rounds of both kinds have been made on integer ballots: a
\* deduction has taken the quota from the table, an elimination has dropped
\* exhausted votes, and a candidate left in the table holds more first-choice
\* votes than ballots name it first, which it received by a transfer.
C23_Witness ==
    /\ pc = "stv"
    /\ IsSeatCount
    /\ WellFormedBallots
    /\ candidates_none
    /\ IntVotes(votes)
    /\ n_deducted >= 1
    /\ exhausted >= 1
    /\ TotalVotes(votes_df) < NumVotes(votes)
    /\ \E c \in FirstChoices(votes_df) : ChoiceTotal(votes_df, c) > FirstPreferences(c)

====
